---- MODULE Spec2Model ----
(***************************************************************************)
(* The format registry of parmed/formats/registry.py: the metaclass        *)
(* FileFormatType, which registers file-format classes at class-definition *)
(* time, and load_file, which identifies a file's format by scanning the   *)
(* registry and dispatches to the matching class's entry point.            *)
(*                                                                         *)
(* load_file is modelled step by step: the accessibility check, one step   *)
(* per id_format call of the scan, and the step that validates the         *)
(* required keywords, prunes the optional ones and invokes the entry       *)
(* point.  The id_format and entry-point calls are recorded, in order, in  *)
(* the variable calls.                                                     *)
(*                                                                         *)
(* Scope: entry points (parse, open_old, open, __init__) are Python        *)
(* functions, so that func.__code__ exists; the handler's own treatment of *)
(* positional arguments and of the file's content is outside the           *)
(* dispatcher and is not modelled beyond Python's binding of keywords.     *)
(***************************************************************************)
EXTENDS Naturals, Sequences, FiniteSets, TLC

(* ------------------------------ bounds -------------------------------- *)

\* The most keyword arguments a caller passes to load_file.
MaxKw == 2

\* The most classes the registry holds.
MaxHandlers == 2

(* ------------------------------ helpers ------------------------------- *)

Range(s) == {s[n] : n \in DOMAIN s}

\* Every iteration order of a dict whose keys are S.
Orders(S) == {s \in [1..Cardinality(S) -> S] : Range(s) = S}

(* ------------------------- Python code objects ------------------------ *)

\* func.__code__ of "def f(<pos>, *, <kwonly>, **kwargs): <locals>":
\* co_varnames lists the positional parameters, then the keyword-only ones,
\* then the ** parameter, then the local variables; co_argcount counts the
\* positional parameters only.
Code(pos, kwonly, varkw, locals) ==
    [co_varnames |-> pos \o kwonly \o (IF varkw THEN <<"kwargs">> ELSE <<>>) \o locals,
     co_argcount |-> Len(pos),
     co_kwonlyargcount |-> Len(kwonly),
     varkw |-> varkw]

\* The names a call may pass by keyword: the signature's declared parameters.
Parameters(func) ==
    Range(SubSeq(func.co_varnames, 1, func.co_argcount + func.co_kwonlyargcount))

(* ------------------------------ the classes --------------------------- *)

\* The entry points of a class, in the order load_file looks for them.
EntryPoints == {"parse", "open_old", "open", "__init__"}

\* The class definitions of the model: what the class body defines (dct),
\* what the class inherits from its bases (bases), the value of extra_args
\* when the body defines it, and the code of each entry point.
Plain == Code(<<"self", "fname">>, <<>>, FALSE, <<>>)

\* parse(filename, structure=False), with a local variable natom; open is
\* inherited.
Mol2File ==
    [qualname |-> "parmed.formats.mol2.Mol2File", name |-> "Mol2File",
     dct |-> {"id_format", "parse"}, bases |-> {"open"}, extra_args |-> <<>>,
     code |-> ("parse" :> Code(<<"filename", "structure">>, <<>>, FALSE, <<"natom">>))
           @@ ("open_old" :> Plain)
           @@ ("open" :> Code(<<"filename", "hasbox">>, <<>>, FALSE, <<>>))
           @@ ("__init__" :> Plain)]

\* A second class named Mol2File, of another module:
\* open_old(filename, natom=None, *, hasbox=False), open(filename, structure).
Mol2Plugin ==
    [qualname |-> "plugin.mol2.Mol2File", name |-> "Mol2File",
     dct |-> {"id_format", "open_old", "open", "extra_args"}, bases |-> {},
     extra_args |-> <<"xyz">>,
     code |-> ("parse" :> Plain)
           @@ ("open_old" :> Code(<<"filename", "natom", "xyz">>, <<"hasbox">>, FALSE, <<>>))
           @@ ("open" :> Code(<<"filename", "structure">>, <<>>, FALSE, <<>>))
           @@ ("__init__" :> Plain)]

\* No parse, open_old or open: __init__(self, fname, natom, hasbox).
AmberMdcrd ==
    [qualname |-> "parmed.amber.asciicrd.AmberMdcrd", name |-> "AmberMdcrd",
     dct |-> {"id_format", "extra_args", "__init__"}, bases |-> {},
     extra_args |-> <<"natom", "hasbox">>,
     code |-> ("parse" :> Plain) @@ ("open_old" :> Plain) @@ ("open" :> Plain)
           @@ ("__init__" :> Code(<<"self", "fname", "natom", "hasbox">>, <<>>, FALSE, <<>>))]

\* open(filename, **kwargs) only; natom is required.
NetCDFTraj ==
    [qualname |-> "parmed.amber.netcdffiles.NetCDFTraj", name |-> "NetCDFTraj",
     dct |-> {"id_format", "open", "extra_args"}, bases |-> {},
     extra_args |-> <<"natom">>,
     code |-> ("parse" :> Plain) @@ ("open_old" :> Plain)
           @@ ("open" :> Code(<<"filename">>, <<>>, TRUE, <<>>))
           @@ ("__init__" :> Plain)]

\* Two classes that do not define id_format themselves: a subclass of
\* Mol2File, which inherits it, and a class named NetCDFTraj without it.
Mol2Sub ==
    [qualname |-> "parmed.formats.mol2.Mol2Sub", name |-> "Mol2Sub",
     dct |-> {"extra_args"}, bases |-> {"id_format", "parse", "open"},
     extra_args |-> <<"xyz">>,
     code |-> ("parse" :> Code(<<"filename", "structure">>, <<>>, FALSE, <<"natom">>))
           @@ ("open_old" :> Plain)
           @@ ("open" :> Code(<<"filename", "hasbox">>, <<>>, FALSE, <<>>))
           @@ ("__init__" :> Plain)]

NetCDFBase ==
    [qualname |-> "plugin.base.NetCDFTraj", name |-> "NetCDFTraj",
     dct |-> {"extra_args", "parse"}, bases |-> {}, extra_args |-> <<"natom">>,
     code |-> ("parse" :> Plain) @@ ("open_old" :> Plain) @@ ("open" :> Plain)
           @@ ("__init__" :> Plain)]

ClassDefs == {Mol2File, Mol2Plugin, AmberMdcrd, NetCDFTraj, Mol2Sub, NetCDFBase}

\* hasattr(cls, attr): defined by the class body or inherited.
hasattr(cls, attr) == attr \in cls.dct \cup cls.bases

\* A reference to a class object, and the class it refers to.
Id(cls) == cls.qualname

Class(ref) == CHOOSE c \in ClassDefs : c.qualname = ref

(* ------------------------------ inputs -------------------------------- *)

\* The keywords load_file prunes, in the order it prunes them.
Recognized == <<"structure", "natom", "hasbox", "skip_bonds">>

\* The keyword names a caller uses: the recognized ones and a format's own.
Keywords == Range(Recognized) \cup {"xyz"}

Values == {"v"}

\* The keyword bags (**kwargs) a caller passes.
KwargBags ==
    UNION {[K -> Values] : K \in {S \in SUBSET Keywords : Cardinality(S) <= MaxKw}}

NoKwargs == [k \in {} |-> "v"]

\* The extra positional arguments (*args) a caller passes.
ArgLists == {<<>>, <<"a">>}

\* The file names: a URL or a local path, whether it exists (a URL: whether
\* genopen can open it) and whether os.access grants reading.
Filenames ==
    {[url |-> FALSE, exists |-> TRUE, readable |-> TRUE],
     [url |-> FALSE, exists |-> FALSE, readable |-> FALSE],
     [url |-> FALSE, exists |-> TRUE, readable |-> FALSE],
     [url |-> TRUE, exists |-> TRUE, readable |-> FALSE],
     [url |-> TRUE, exists |-> FALSE, readable |-> FALSE]}

NoFile == [url |-> FALSE, exists |-> FALSE, readable |-> FALSE]

\* What cls.id_format(filename) does: returns True or False, raises
\* UnicodeDecodeError, or raises another exception.
IdOutcomes == {"True", "False", "UnicodeDecodeError", "IndexError"}

(* ------------------------------- state -------------------------------- *)

VARIABLES
    PARSER_REGISTRY,   \* class name -> class (a reference)
    PARSER_ARGUMENTS,  \* class name -> the keywords its entry point requires
    order,             \* the iteration order of PARSER_REGISTRY
    pc,                \* "idle", where the running load_file call is, or "done"
    filename,          \* the running (or last) call's filename
    args,              \* its *args
    kwargs,            \* its **kwargs, as the caller passed them
    id_format,         \* class name -> what its id_format does on filename
    pos,               \* the position of the scan in order
    calls,             \* the calls made to the classes, in order
    result,            \* the outcome of the last operation
    earlier            \* an ended load_file call its caller is about to repeat

vars ==
    <<PARSER_REGISTRY, PARSER_ARGUMENTS, order, pc, filename, args, kwargs,
      id_format, pos, calls, result, earlier>>

registry == <<PARSER_REGISTRY, PARSER_ARGUMENTS, order>>

NoResult ==
    [op |-> "none", kind |-> "none", exc |-> "", by |-> "", text |-> "",
     names |-> {}, value |-> <<>>, who |-> ""]

Returned(op, value, who) ==
    [op |-> op, kind |-> "return", exc |-> "", by |-> "", text |-> "",
     names |-> {}, value |-> value, who |-> who]

Raised(op, exc, by, text, names, who) ==
    [op |-> op, kind |-> "raise", exc |-> exc, by |-> by, text |-> text,
     names |-> names, value |-> <<>>, who |-> who]

\* No call is kept to be repeated.
NoEarlier ==
    [filename |-> NoFile, args |-> <<>>, kwargs |-> NoKwargs,
     id_format |-> [n \in {} |-> "False"], calls |-> <<>>, result |-> NoResult]

Init ==
    /\ PARSER_REGISTRY = [n \in {} |-> ""]
    /\ PARSER_ARGUMENTS = [n \in {} |-> <<>>]
    /\ order = <<>>
    /\ pc = "idle"
    /\ filename = NoFile
    /\ args = <<>>
    /\ kwargs = NoKwargs
    /\ id_format = [n \in {} |-> "False"]
    /\ pos = 0
    /\ calls = <<>>
    /\ result = NoResult
    /\ earlier = NoEarlier

\* No load_file call is running: its variables hold nothing.
NoCall ==
    /\ filename' = NoFile
    /\ args' = <<>>
    /\ kwargs' = NoKwargs
    /\ id_format' = [n \in {} |-> "False"]
    /\ pos' = 0
    /\ calls' = <<>>

(* --------------------------- FileFormatType --------------------------- *)

\* Mutant of SetItem: the assignment replaces the dict by one holding the new
\* key alone.
SetItem_Fresh(dict, key, value) == [k \in {key} |-> value]

\* PARSER_REGISTRY[name] = cls
SetItem(dict, key, value) ==
    [k \in DOMAIN dict \cup {key} |-> IF k = key THEN value ELSE dict[k]]

\* Mutant of Duplicate: the check of line 47 is missing.
Duplicate_Unchecked(name, dict) == FALSE

\* Line 47: name in PARSER_REGISTRY
Duplicate(name, dict) == name \in DOMAIN dict

\* Mutant of Eligible: an inherited id_format counts (hasattr instead of
\* "in dct").
Eligible_Inherited(cls) == hasattr(cls, "id_format")

\* Line 49: 'id_format' in dct
Eligible(cls) == "id_format" \in cls.dct

\* Mutant of Register: lines 53-54, the else branch that stores (), are
\* missing.
Register_NoDefaultArgs(cls) ==
    /\ pc = "idle"
    /\ UNCHANGED earlier
    /\ \/ Duplicate(cls.name, PARSER_REGISTRY)
       \/ ~Eligible(cls)
       \/ Cardinality(DOMAIN PARSER_REGISTRY) < MaxHandlers
    /\ pc' = "done"
    /\ UNCHANGED <<filename, args, kwargs, id_format, pos, calls>>
    /\ IF Duplicate(cls.name, PARSER_REGISTRY)
       THEN /\ result' = Raised("register", "ValueError", "FileFormatType.__init__",
                                "Duplicate name in parser registry", {cls.name}, Id(cls))
            /\ UNCHANGED registry
       ELSE /\ result' = Returned("register", <<>>, Id(cls))
            /\ IF Eligible(cls)
               THEN /\ PARSER_REGISTRY' = SetItem(PARSER_REGISTRY, cls.name, Id(cls))
                    /\ PARSER_ARGUMENTS' =
                         IF "extra_args" \in cls.dct
                         THEN SetItem(PARSER_ARGUMENTS, cls.name, cls.extra_args)
                         ELSE PARSER_ARGUMENTS
                    /\ order' \in Orders(DOMAIN PARSER_REGISTRY')
               ELSE UNCHANGED registry

\* Mutant of Register: line 49's test comes before line 47's, so a class
\* without id_format is never checked for a duplicate name.
Register_EligibilityFirst(cls) ==
    /\ pc = "idle"
    /\ UNCHANGED earlier
    /\ \/ Duplicate(cls.name, PARSER_REGISTRY)
       \/ ~Eligible(cls)
       \/ Cardinality(DOMAIN PARSER_REGISTRY) < MaxHandlers
    /\ pc' = "done"
    /\ UNCHANGED <<filename, args, kwargs, id_format, pos, calls>>
    /\ IF ~Eligible(cls)
       THEN /\ result' = Returned("register", <<>>, Id(cls))
            /\ UNCHANGED registry
       ELSE IF Duplicate(cls.name, PARSER_REGISTRY)
       THEN /\ result' = Raised("register", "ValueError", "FileFormatType.__init__",
                                "Duplicate name in parser registry", {cls.name}, Id(cls))
            /\ UNCHANGED registry
       ELSE /\ result' = Returned("register", <<>>, Id(cls))
            /\ PARSER_REGISTRY' = SetItem(PARSER_REGISTRY, cls.name, Id(cls))
            /\ PARSER_ARGUMENTS' =
                 SetItem(PARSER_ARGUMENTS, cls.name,
                         IF "extra_args" \in cls.dct THEN cls.extra_args ELSE <<>>)
            /\ order' \in Orders(DOMAIN PARSER_REGISTRY')

\* FileFormatType.__init__(cls, name, bases, dct): the class statement of cls.
\* A dict's iteration order after an insertion is the implementation's.
Register(cls) ==
    /\ pc = "idle"
    /\ UNCHANGED earlier
    /\ \/ Duplicate(cls.name, PARSER_REGISTRY)
       \/ ~Eligible(cls)
       \/ Cardinality(DOMAIN PARSER_REGISTRY) < MaxHandlers
    /\ pc' = "done"
    /\ UNCHANGED <<filename, args, kwargs, id_format, pos, calls>>
    /\ IF Duplicate(cls.name, PARSER_REGISTRY)
       THEN /\ result' = Raised("register", "ValueError", "FileFormatType.__init__",
                                "Duplicate name in parser registry", {cls.name}, Id(cls))
            /\ UNCHANGED registry
       ELSE /\ result' = Returned("register", <<>>, Id(cls))
            /\ IF Eligible(cls)
               THEN /\ PARSER_REGISTRY' = SetItem(PARSER_REGISTRY, cls.name, Id(cls))
                    /\ PARSER_ARGUMENTS' =
                         SetItem(PARSER_ARGUMENTS, cls.name,
                                 IF "extra_args" \in cls.dct THEN cls.extra_args ELSE <<>>)
                    /\ order' \in Orders(DOMAIN PARSER_REGISTRY')
               ELSE UNCHANGED registry

(* ------------------------------ load_file ----------------------------- *)

\* One call made to a class: id_format(filename), or an entry point with the
\* arguments it was given.
IdCall(cls, f) ==
    [fn |-> "id_format", cls |-> Id(cls), filename |-> f, args |-> <<>>,
     kwargs |-> NoKwargs]

EntryCall(cls, ep, f, a, kw) ==
    [fn |-> ep, cls |-> Id(cls), filename |-> f, args |-> a, kwargs |-> kw]

\* Mutant of AccessError: the os.access check of lines 169-170 is missing.
AccessError_NoReadCheck(f) ==
    IF f.url
    THEN IF f.exists THEN "" ELSE "genopen"
    ELSE IF ~f.exists THEN "does not exist"
    ELSE ""

\* Lines 161-170: the accessibility check.  "" when the file is accessible,
\* else the text of the IOError.
AccessError(f) ==
    IF f.url
    THEN IF f.exists THEN "" ELSE "genopen"
    ELSE IF ~f.exists THEN "does not exist"
    ELSE IF ~f.readable THEN "does not have read permissions set"
    ELSE ""

\* load_file(filename, *args, **kwargs) up to the scan; ids is what the
\* id_format of each registered class does on this file.
LoadFile(f, a, kw, ids) ==
    /\ pc = "idle"
    /\ UNCHANGED earlier
    /\ filename' = f
    /\ args' = a
    /\ kwargs' = kw
    /\ id_format' = ids
    /\ calls' = <<>>
    /\ pos' = 1
    /\ UNCHANGED registry
    /\ IF AccessError(f) # ""
       THEN /\ result' = Raised("load_file", "IOError",
                                IF f.url THEN "genopen" ELSE "load_file",
                                AccessError(f), {}, "")
            /\ pc' = "done"
       ELSE /\ result' = NoResult
            /\ pc' = "scan"

\* Mutant of Truthy: "is not None" instead of the truth value.
Truthy_NotNone(outcome) == outcome \in {"True", "False"}

\* Line 176: if cls.id_format(filename)
Truthy(outcome) == outcome = "True"

\* Mutant of Caught: the except clause catches every exception.
Caught_Everything(outcome) == outcome \notin {"True", "False"}

\* Mutant of Caught: no except clause.
Caught_Nothing(outcome) == FALSE

\* Line 178: except UnicodeDecodeError
Caught(outcome) == outcome = "UnicodeDecodeError"

\* Mutant of Exhausted: the loop stops one class early.
Exhausted_OneEarly(p, ord) == p >= Len(ord)

\* Line 172: the for loop has no class left.
Exhausted(p, ord) == p > Len(ord)

\* The scan without line 177's break: an accepting id_format does not end it.
Identify_NoBreak ==
    /\ pc = "scan"
    /\ UNCHANGED earlier
    /\ ~Exhausted(pos, order)
    /\ LET name == order[pos]
           cls == Class(PARSER_REGISTRY[name])
       IN  IF ~hasattr(cls, "id_format")
           THEN /\ pos' = pos + 1
                /\ UNCHANGED <<pc, calls, result>>
           ELSE /\ calls' = Append(calls, IdCall(cls, filename))
                /\ IF Truthy(id_format[name]) \/ id_format[name] = "False"
                      \/ Caught(id_format[name])
                   THEN /\ pos' = pos + 1
                        /\ UNCHANGED <<pc, result>>
                   ELSE /\ result' = Raised("load_file", id_format[name], "id_format",
                                            "", {}, Id(cls))
                        /\ pc' = "done"
                        /\ UNCHANGED pos
    /\ UNCHANGED <<registry, filename, args, kwargs, id_format>>

\* Mutant of Identify: the continue of line 179 and a False answer leave the
\* loop on the same class.
Identify_NoAdvance ==
    /\ pc = "scan"
    /\ UNCHANGED earlier
    /\ ~Exhausted(pos, order)
    /\ LET name == order[pos]
           cls == Class(PARSER_REGISTRY[name])
       IN  IF ~hasattr(cls, "id_format")
           THEN /\ pos' = pos + 1
                /\ UNCHANGED <<pc, calls, result>>
           ELSE /\ calls' = Append(calls, IdCall(cls, filename))
                /\ IF Truthy(id_format[name])
                   THEN /\ pc' = "found"
                        /\ UNCHANGED <<pos, result>>
                   ELSE IF id_format[name] = "False" \/ Caught(id_format[name])
                   THEN UNCHANGED <<pos, pc, result>>
                   ELSE /\ result' = Raised("load_file", id_format[name], "id_format",
                                            "", {}, Id(cls))
                        /\ pc' = "done"
                        /\ UNCHANGED pos
    /\ UNCHANGED <<registry, filename, args, kwargs, id_format>>

\* Mutant of Identify: the for loop of line 172 takes the classes that are
\* left in an order of its own each time it runs.
Identify_AnyOrder ==
    /\ pc = "scan"
    /\ UNCHANGED earlier
    /\ ~Exhausted(pos, order)
    /\ \E p \in pos..Len(order) :
         LET name == order[p]
             cls == Class(PARSER_REGISTRY[name])
         IN  IF ~hasattr(cls, "id_format")
             THEN /\ pos' = p + 1
                  /\ UNCHANGED <<pc, calls, result>>
             ELSE /\ calls' = Append(calls, IdCall(cls, filename))
                  /\ IF Truthy(id_format[name])
                     THEN /\ pc' = "found"
                          /\ pos' = p
                          /\ UNCHANGED result
                     ELSE IF id_format[name] = "False" \/ Caught(id_format[name])
                     THEN /\ pos' = p + 1
                          /\ UNCHANGED <<pc, result>>
                     ELSE /\ result' = Raised("load_file", id_format[name], "id_format",
                                              "", {}, Id(cls))
                          /\ pc' = "done"
                          /\ pos' = p
    /\ UNCHANGED <<registry, filename, args, kwargs, id_format>>

\* Lines 172-179: one iteration of the scan.
Identify ==
    /\ pc = "scan"
    /\ UNCHANGED earlier
    /\ ~Exhausted(pos, order)
    /\ LET name == order[pos]
           cls == Class(PARSER_REGISTRY[name])
       IN  IF ~hasattr(cls, "id_format")
           THEN /\ pos' = pos + 1
                /\ UNCHANGED <<pc, calls, result>>
           ELSE /\ calls' = Append(calls, IdCall(cls, filename))
                /\ IF Truthy(id_format[name])
                   THEN /\ pc' = "found"
                        /\ UNCHANGED <<pos, result>>
                   ELSE IF id_format[name] = "False" \/ Caught(id_format[name])
                   THEN /\ pos' = pos + 1
                        /\ UNCHANGED <<pc, result>>
                   ELSE /\ result' = Raised("load_file", id_format[name], "id_format",
                                            "", {}, Id(cls))
                        /\ pc' = "done"
                        /\ UNCHANGED pos
    /\ UNCHANGED <<registry, filename, args, kwargs, id_format>>

\* Lines 180-182: the scan ended without a break.
NotFound ==
    /\ pc = "scan"
    /\ UNCHANGED earlier
    /\ Exhausted(pos, order)
    /\ result' = Raised("load_file", "FormatNotFound", "load_file",
                        "Could not identify file format", {}, "")
    /\ pc' = "done"
    /\ UNCHANGED <<registry, filename, args, kwargs, id_format, pos, calls>>

\* The % operator on a format string with nspec "%s" and the values given.
PercentFormat(nspec, values) ==
    IF Len(values) = nspec
    THEN [ok |-> TRUE, names |-> Range(values)]
    ELSE [ok |-> FALSE, names |-> {}]

\* Lines 188-189: raise TypeError('%s constructor expects %s keyword
\* argument' % name, arg).  % binds tighter than the comma: the format string
\* is given name alone.
MissingKeyword(name, arg) ==
    LET m == PercentFormat(2, <<name>>)
    IN  IF m.ok
        THEN Raised("load_file", "TypeError", "load_file",
                    "constructor expects keyword argument", m.names \cup {arg}, "")
        ELSE Raised("load_file", "TypeError", "load_file",
                    "not enough arguments for format string", {}, "")

\* Mutant of Missing: only the first required keyword is checked.
Missing_FirstOnly(other_args, kw) ==
    {n \in DOMAIN other_args : n = 1 /\ other_args[n] \notin DOMAIN kw}

\* Lines 186-187: the positions of other_args whose keyword is not in kwargs.
Missing(other_args, kw) ==
    {n \in DOMAIN other_args : other_args[n] \notin DOMAIN kw}

First(S) == CHOOSE n \in S : \A m \in S : n <= m

\* _prune_argument(func, kwargs, keyword)
prune_argument(func, kw, keyword) ==
    IF /\ keyword \in DOMAIN kw
       /\ keyword \notin Range(SubSeq(func.co_varnames, 1, func.co_argcount))
    THEN [k \in DOMAIN kw \ {keyword} |-> kw[k]]
    ELSE kw

\* The four _prune_argument calls made for one entry point.
Prune(func, kw) ==
    prune_argument(func,
        prune_argument(func,
            prune_argument(func,
                prune_argument(func, kw, Recognized[1]),
                Recognized[2]),
            Recognized[3]),
        Recognized[4])

\* Mutant of Target: the open_old branch prunes against open's signature.
Target_WrongSignature(cls, kw) ==
    IF hasattr(cls, "parse")
    THEN [ep |-> "parse", kwargs |-> Prune(cls.code["parse"], kw)]
    ELSE IF hasattr(cls, "open_old")
    THEN [ep |-> "open_old", kwargs |-> Prune(cls.code["open"], kw)]
    ELSE IF hasattr(cls, "open")
    THEN [ep |-> "open", kwargs |-> Prune(cls.code["open"], kw)]
    ELSE [ep |-> "__init__", kwargs |-> Prune(cls.code["__init__"], kw)]

\* Lines 192-214: the entry point load_file calls and the kwargs it passes.
Target(cls, kw) ==
    IF hasattr(cls, "parse")
    THEN [ep |-> "parse", kwargs |-> Prune(cls.code["parse"], kw)]
    ELSE IF hasattr(cls, "open_old")
    THEN [ep |-> "open_old", kwargs |-> Prune(cls.code["open_old"], kw)]
    ELSE IF hasattr(cls, "open")
    THEN [ep |-> "open", kwargs |-> Prune(cls.code["open"], kw)]
    ELSE [ep |-> "__init__", kwargs |-> Prune(cls.code["__init__"], kw)]

\* The keywords of a call that func's signature does not take.
Unexpected(func, kw) ==
    IF func.varkw THEN {} ELSE DOMAIN kw \ Parameters(func)

\* What the call cls.<ep>(filename, *args, **kw) gives load_file: Python
\* raises TypeError for a keyword the function does not take; otherwise the
\* entry point returns its object.
Invoke(cls, ep, kw) ==
    IF Unexpected(cls.code[ep], kw) # {}
    THEN {Raised("load_file", "TypeError", ep, "got an unexpected keyword argument",
                 {k}, Id(cls)) : k \in Unexpected(cls.code[ep], kw)}
    ELSE {Returned("load_file", <<Id(cls), ep>>, Id(cls))}

\* Mutant of Dispatch: line 185 takes the required keywords out of
\* PARSER_ARGUMENTS instead of reading them.
Dispatch_TakesArguments ==
    /\ pc = "found"
    /\ UNCHANGED earlier
    /\ LET name == order[pos]
           cls == Class(PARSER_REGISTRY[name])
           other_args == PARSER_ARGUMENTS[name]
           t == Target(cls, kwargs)
       IN  /\ PARSER_ARGUMENTS' = [PARSER_ARGUMENTS EXCEPT ![name] = <<>>]
           /\ IF Missing(other_args, kwargs) # {}
              THEN /\ result' = MissingKeyword(name, other_args[First(Missing(other_args, kwargs))])
                   /\ UNCHANGED calls
              ELSE /\ calls' = Append(calls, EntryCall(cls, t.ep, filename, args, t.kwargs))
                   /\ result' \in Invoke(cls, t.ep, t.kwargs)
    /\ pc' = "done"
    /\ UNCHANGED <<PARSER_REGISTRY, order, filename, args, kwargs, id_format, pos>>

\* Lines 184-214: the required keywords, the pruning and the entry point.
Dispatch ==
    /\ pc = "found"
    /\ UNCHANGED earlier
    /\ LET name == order[pos]
           cls == Class(PARSER_REGISTRY[name])
           other_args == PARSER_ARGUMENTS[name]
           t == Target(cls, kwargs)
       IN  IF Missing(other_args, kwargs) # {}
           THEN /\ result' = MissingKeyword(name, other_args[First(Missing(other_args, kwargs))])
                /\ UNCHANGED calls
           ELSE /\ calls' = Append(calls, EntryCall(cls, t.ep, filename, args, t.kwargs))
                /\ result' \in Invoke(cls, t.ep, t.kwargs)
    /\ pc' = "done"
    /\ UNCHANGED <<registry, filename, args, kwargs, id_format, pos>>

\* The operation has returned or raised: its caller has the outcome, and the
\* call's own variables are gone.
Finish ==
    /\ pc = "done"
    /\ pc' = "idle"
    /\ NoCall
    /\ result' = NoResult
    /\ earlier' = NoEarlier
    /\ UNCHANGED registry

\* load_file has returned or raised and its caller keeps what it passed and
\* what came of it, to call load_file again with the same arguments.
Remember ==
    /\ pc = "done"
    /\ result.op = "load_file"
    /\ earlier = NoEarlier
    /\ earlier' = [filename |-> filename, args |-> args, kwargs |-> kwargs,
                   id_format |-> id_format, calls |-> calls, result |-> result]
    /\ pc' = "idle"
    /\ NoCall
    /\ result' = NoResult
    /\ UNCHANGED registry

\* The second call: the same filename, *args and **kwargs, on files and
\* classes that answer as they did.
Replay ==
    /\ earlier # NoEarlier
    /\ LoadFile(earlier.filename, earlier.args, earlier.kwargs, earlier.id_format)

Next ==
    \/ pc = "idle" /\ \E cls \in ClassDefs : Register(cls)
    \/ pc = "idle" /\ \E f \in Filenames, a \in ArgLists, kw \in KwargBags,
                        ids \in [DOMAIN PARSER_REGISTRY -> IdOutcomes] :
                            LoadFile(f, a, kw, ids)
    \/ Identify
    \/ NotFound
    \/ Dispatch
    \/ Finish

Spec == Init /\ [][Next]_vars

\* The program with callers that repeat a load_file call right after it ended,
\* before any other class is created.
NextReplay ==
    \/ pc = "idle" /\ earlier = NoEarlier /\ \E cls \in ClassDefs : Register(cls)
    \/ pc = "idle" /\ earlier = NoEarlier
           /\ \E f \in Filenames, a \in ArgLists, kw \in KwargBags,
                 ids \in [DOMAIN PARSER_REGISTRY -> IdOutcomes] :
                     LoadFile(f, a, kw, ids)
    \/ Identify
    \/ NotFound
    \/ Dispatch
    \/ Finish
    \/ Remember
    \/ Replay

SpecReplay == Init /\ [][NextReplay]_vars

\* load_file runs to its end once called: the interpreter goes on to the next
\* statement whenever the id_format or entry point it called has returned or
\* raised.
SpecFair == Spec /\ WF_vars(Identify \/ NotFound \/ Dispatch)

(* ------------------------- what the claims read ----------------------- *)

\* A load_file call has ended: result is its outcome, calls what it called.
LoadDone == pc = "done" /\ result.op = "load_file"

\* The file fails load_file's accessibility check.
Inaccessible(f) ==
    \/ f.url /\ ~f.exists
    \/ ~f.url /\ (~f.exists \/ ~f.readable)

IdCalls == SelectSeq(calls, LAMBDA e : e.fn = "id_format")

EntryCalls == SelectSeq(calls, LAMBDA e : e.fn # "id_format")

\* The registered names whose id_format accepts the file.
Accepting == {n \in DOMAIN id_format : id_format[n] = "True"}

\* id_format returns False or raises UnicodeDecodeError.
Quiet(outcome) == outcome \in {"False", "UnicodeDecodeError"}

\* The ended call selected the class registered as n: its id_format was the
\* last one called and the call went on to the required keywords.
Selected(n) ==
    /\ LoadDone
    /\ IdCalls # <<>>
    /\ IdCalls[Len(IdCalls)].cls = PARSER_REGISTRY[n]
    /\ result.by # "id_format"
    /\ result.exc # "FormatNotFound"

\* What the ended call returned, if it returned, is what the entry point of
\* the class registered as n returned.
ReturnsResultOf(n) ==
    result.kind = "return" =>
        /\ EntryCalls # <<>>
        /\ EntryCalls[Len(EntryCalls)].cls = PARSER_REGISTRY[n]
        /\ result.value = <<EntryCalls[Len(EntryCalls)].cls, EntryCalls[Len(EntryCalls)].fn>>
        /\ result.who = PARSER_REGISTRY[n]

\* Each registered class's id_format was called exactly once.
AllScanned ==
    \A n \in DOMAIN PARSER_REGISTRY :
        Cardinality({j \in DOMAIN calls : /\ calls[j].fn = "id_format"
                                         /\ calls[j].cls = PARSER_REGISTRY[n]}) = 1

\* Some keyword that PARSER_ARGUMENTS requires of n is not in kwargs.
Absent(n) ==
    \E j \in DOMAIN PARSER_ARGUMENTS[n] : PARSER_ARGUMENTS[n][j] \notin DOMAIN kwargs

\* The names of func's positional parameters.
Positional(func) == {func.co_varnames[j] : j \in 1..func.co_argcount}

(* -------------------------------- claims ------------------------------ *)

\* C1 as claimed: if exactly one registered class's id_format accepts the
\* accessible file, load_file selects that class and what it returns is that
\* class's entry-point result, whatever the other id_format calls do.
C1_AsClaimed ==
    (LoadDone /\ ~Inaccessible(filename) /\ Cardinality(Accepting) = 1) =>
        \A n \in Accepting : Selected(n) /\ ReturnsResultOf(n)

\* C1, amended: if exactly one registered class's id_format accepts the
\* accessible file and no class scanned before it raises anything but a decode
\* error, load_file selects that class, and what it returns is that class's
\* entry-point result unchanged; the other classes' id_format results (False
\* or a decode error before it, anything after it) do not matter.
C1_UniqueAcceptorSelected ==
    (LoadDone /\ ~Inaccessible(filename) /\ Cardinality(Accepting) = 1) =>
        \A n \in Accepting :
            (\A p \in DOMAIN order :
                (\E q \in DOMAIN order : q > p /\ order[q] = n) => Quiet(id_format[order[p]]))
            => Selected(n) /\ ReturnsResultOf(n)

\* C1's case: a call that returned, with one acceptor scanned after a class
\* whose id_format raised a decode error.
C1_Witness ==
    /\ LoadDone
    /\ result.kind = "return"
    /\ Cardinality(Accepting) = 1
    /\ Len(IdCalls) = 2
    /\ \E n \in DOMAIN id_format : id_format[n] = "UnicodeDecodeError"

\* C2 as claimed: if no registered class's id_format returns True on an
\* accessible file, load_file raises FormatNotFound, after calling every
\* registered class's id_format and without calling any entry point.
C2_AsClaimed ==
    (LoadDone /\ ~Inaccessible(filename) /\ Accepting = {}) =>
        /\ result.kind = "raise" /\ result.exc = "FormatNotFound"
        /\ AllScanned
        /\ EntryCalls = <<>>

\* C2, amended: if every registered class's id_format returns False or raises
\* a decode error on an accessible file (the empty registry included),
\* load_file raises FormatNotFound, after calling every registered class's
\* id_format once and without calling any entry point.
C2_FormatNotFound ==
    (LoadDone /\ ~Inaccessible(filename) /\ \A n \in DOMAIN id_format : Quiet(id_format[n])) =>
        /\ result.kind = "raise" /\ result.exc = "FormatNotFound"
        /\ result.by = "load_file"
        /\ AllScanned
        /\ EntryCalls = <<>>

\* C2's case: FormatNotFound after a scan of two classes.
C2_Witness ==
    /\ LoadDone
    /\ result.exc = "FormatNotFound"
    /\ Len(IdCalls) = 2
    /\ Accepting = {}

\* C3: once a class is selected, load_file itself raises TypeError exactly
\* when a keyword of the class's extra_args is not in kwargs; then no entry
\* point has been called, and otherwise the class's entry point is called.
C3_RequiredKeywords ==
    \A n \in DOMAIN PARSER_REGISTRY :
        Selected(n) =>
            /\ (result.kind = "raise" /\ result.exc = "TypeError" /\ result.by = "load_file")
                   <=> Absent(n)
            /\ Absent(n) => EntryCalls = <<>>
            /\ ~Absent(n) => /\ Len(EntryCalls) = 1
                             /\ EntryCalls[1].cls = PARSER_REGISTRY[n]

\* C3's case: the second of two required keywords is missing.
C3_Witness ==
    /\ LoadDone
    /\ result.exc = "TypeError" /\ result.by = "load_file"
    /\ \E n \in DOMAIN PARSER_REGISTRY :
          /\ Selected(n)
          /\ Len(PARSER_ARGUMENTS[n]) = 2
          /\ PARSER_ARGUMENTS[n][1] \in DOMAIN kwargs

\* C4 as claimed: a recognized keyword the caller passed is in the kwargs the
\* entry point gets exactly when the entry point's signature declares a
\* parameter of that name, and a dropped keyword is never what the call fails
\* on.
C4_AsClaimed ==
    (LoadDone /\ EntryCalls # <<>>) =>
        LET e == EntryCalls[1]
            func == Class(e.cls).code[e.fn]
        IN  \A k \in Range(Recognized) \cap DOMAIN kwargs :
                /\ k \in DOMAIN e.kwargs <=> k \in Parameters(func)
                /\ (k \notin DOMAIN e.kwargs /\ result.kind = "raise") => k \notin result.names

\* C5 as claimed: in a call that returned, the entry point got the caller's
\* positional arguments and, with its value, every keyword of the caller that
\* is not one of the four recognized ones or that the class's extra_args
\* lists.
C5_AsClaimed ==
    (LoadDone /\ result.kind = "return") =>
        LET e == EntryCalls[1]
            n == Class(e.cls).name
        IN  /\ e.args = args
            /\ \A k \in DOMAIN kwargs :
                   (k \notin Range(Recognized) \/ k \in Range(PARSER_ARGUMENTS[n])) =>
                       k \in DOMAIN e.kwargs /\ e.kwargs[k] = kwargs[k]

\* C6: a call whose file fails the accessibility check calls no id_format
\* and no entry point: it never reaches the scan and ends with IOError.
C6_AccessBeforeIdentification ==
    (Inaccessible(filename) /\ result.op # "register") =>
        /\ calls = <<>>
        /\ pc \in {"idle", "done"}
        /\ pc = "done" => result.kind = "raise" /\ result.exc = "IOError"

\* C6's case: an unreadable local file that a registered class would accept.
C6_Witness ==
    /\ LoadDone
    /\ ~filename.url /\ filename.exists /\ ~filename.readable
    /\ Accepting # {}
    /\ result.exc = "IOError"

C8_DuplicateName ==
    [][\A c \in ClassDefs :
          (/\ pc = "idle" /\ pc' = "done"
           /\ result'.op = "register" /\ result'.who = Id(c)
           /\ c.name \in DOMAIN PARSER_REGISTRY)
          => /\ result'.kind = "raise" /\ result'.exc = "ValueError"
             /\ PARSER_REGISTRY' = PARSER_REGISTRY
             /\ PARSER_ARGUMENTS' = PARSER_ARGUMENTS
             /\ order' = order]_vars

\* C8's case: a second class with id_format was defined under a registered
\* name, and the first class is still the one registered.
C8_Witness ==
    /\ pc = "done"
    /\ result.op = "register" /\ result.exc = "ValueError"
    /\ Eligible(Class(result.who))
    /\ PARSER_REGISTRY[Class(result.who).name] # result.who

\* C9: every class in PARSER_REGISTRY defines id_format in its own body, and
\* every class load_file calls (id_format or entry point) does.
C9_OnlyIdentifiers ==
    /\ \A n \in DOMAIN PARSER_REGISTRY : "id_format" \in Class(PARSER_REGISTRY[n]).dct
    /\ \A j \in DOMAIN calls : "id_format" \in Class(calls[j].cls).dct

\* C9's case: the class statement of a class that only inherits id_format
\* has ended without error, with other classes registered.
C9_Witness ==
    /\ pc = "done"
    /\ result.op = "register" /\ result.kind = "return"
    /\ "id_format" \notin Class(result.who).dct
    /\ hasattr(Class(result.who), "id_format")
    /\ PARSER_REGISTRY # [n \in {} |-> ""]

AcceptedAt == {q \in 1..Len(IdCalls) : id_format[order[q]] = "True"}

\* C11: the class load_file selects is the first in iteration order whose
\* id_format returns True: every id_format called before it was called in
\* iteration order and did not return True, no id_format of a later class is
\* called, whatever it would answer, and so exactly one of the id_format
\* calls of a call that reached an entry point returned True. A scan in which
\* some id_format would return True ends otherwise only by an id_format error.
C11_FirstMatchWins ==
    /\ \A n \in DOMAIN PARSER_REGISTRY :
          Selected(n) =>
              \E p \in DOMAIN order :
                  /\ order[p] = n
                  /\ id_format[n] = "True"
                  /\ \A q \in 1..(p - 1) : id_format[order[q]] # "True"
                  /\ Len(IdCalls) = p
                  /\ \A q \in 1..p : IdCalls[q].cls = PARSER_REGISTRY[order[q]]
    /\ (LoadDone /\ EntryCalls # <<>>) => Cardinality(AcceptedAt) = 1
    /\ (LoadDone /\ ~Inaccessible(filename) /\ Accepting # {} /\ result.by # "id_format") =>
          \E n \in Accepting : Selected(n)

\* C11's case: a call that returned with the first of two registered classes
\* selected, while the second one's id_format would have accepted the file too.
C11_Witness ==
    /\ LoadDone
    /\ result.kind = "return"
    /\ Len(order) = 2
    /\ Cardinality(Accepting) = 2
    /\ Len(IdCalls) = 1
    /\ Selected(order[1])


\* The first position of the iteration order whose id_format neither returns
\* False nor raises a decode error, or 0.
FirstLoud ==
    IF \E p \in DOMAIN order : ~Quiet(id_format[order[p]])
    THEN CHOOSE p \in DOMAIN order :
             /\ ~Quiet(id_format[order[p]])
             /\ \A q \in 1..(p - 1) : Quiet(id_format[order[q]])
    ELSE 0

\* C12 as claimed: when the selected class requires a keyword that kwargs
\* lacks, the error load_file raises names the class's registered name and
\* the first required keyword that is missing.
C12_AsClaimed ==
    \A n \in DOMAIN PARSER_REGISTRY :
        (Selected(n) /\ Absent(n)) =>
            /\ result.kind = "raise"
            /\ result.names = {n, PARSER_ARGUMENTS[n][First(Missing(PARSER_ARGUMENTS[n], kwargs))]}

\* C13: on an accessible file, if the first id_format in iteration order that
\* neither returns False nor raises a decode error raises another error, then
\* load_file raises that error as the id_format of that class raised it, no
\* id_format of a later class is called, and no entry point is called.
C13_OtherErrorsPropagate ==
    (LoadDone /\ ~Inaccessible(filename) /\ FirstLoud # 0
       /\ id_format[order[FirstLoud]] # "True") =>
        /\ result.kind = "raise"
        /\ result.exc = id_format[order[FirstLoud]]
        /\ result.by = "id_format"
        /\ result.who = PARSER_REGISTRY[order[FirstLoud]]
        /\ Len(IdCalls) = FirstLoud
        /\ \A q \in 1..FirstLoud : IdCalls[q].cls = PARSER_REGISTRY[order[q]]
        /\ EntryCalls = <<>>

\* C13's case: the first of two registered classes raised IndexError from
\* id_format, the second would have accepted the file, and the call ended
\* with the IndexError.
C13_Witness ==
    /\ LoadDone
    /\ Len(order) = 2
    /\ id_format[order[1]] = "IndexError"
    /\ id_format[order[2]] = "True"
    /\ result.exc = "IndexError"
    /\ Len(calls) = 1


\* The step is not one of class creation: it belongs to a load_file call or
\* hands a finished operation's outcome to the caller.
NotRegistering == ~(pc = "idle" /\ result'.op = "register")

C15_RegistryOnlyGrows ==
    [][\A n \in DOMAIN PARSER_REGISTRY :
          /\ n \in DOMAIN PARSER_REGISTRY'
          /\ n \in DOMAIN PARSER_ARGUMENTS'
          /\ PARSER_REGISTRY'[n] = PARSER_REGISTRY[n]
          /\ PARSER_ARGUMENTS'[n] = PARSER_ARGUMENTS[n]]_vars

\* C15's case: a second class has just been registered and the first one,
\* with its required keywords, is still there.
C15_Witness ==
    /\ pc = "done"
    /\ result.op = "register"
    /\ result.kind = "return"
    /\ Cardinality(DOMAIN PARSER_REGISTRY) = 2
    /\ \E n \in DOMAIN PARSER_REGISTRY :
          /\ PARSER_REGISTRY[n] = result.who
          /\ \E m \in DOMAIN PARSER_REGISTRY \ {n} : PARSER_ARGUMENTS[m] # <<>>


\* The required keywords the class declares in its body, () if it declares
\* none.
Declared(cls) == IF "extra_args" \in cls.dct THEN cls.extra_args ELSE <<>>

\* C17: PARSER_REGISTRY and PARSER_ARGUMENTS always have the same names, each
\* name's required keywords are those its class declares, () for a class that
\* declares none, and so the lookup of line 185 for the class load_file
\* selected finds an entry.
C17_SameNames ==
    /\ DOMAIN PARSER_ARGUMENTS = DOMAIN PARSER_REGISTRY
    /\ Range(order) = DOMAIN PARSER_REGISTRY
    /\ \A n \in DOMAIN PARSER_REGISTRY :
          /\ n \in DOMAIN PARSER_ARGUMENTS
          /\ PARSER_ARGUMENTS[n] = Declared(Class(PARSER_REGISTRY[n]))
    /\ pc = "found" => order[pos] \in DOMAIN PARSER_ARGUMENTS

\* C17's case: with a class that declares required keywords registered too,
\* load_file selected a class that declares none and went on to its entry
\* point.
C17_Witness ==
    /\ LoadDone
    /\ EntryCalls # <<>>
    /\ \E n \in DOMAIN PARSER_REGISTRY :
          /\ Selected(n)
          /\ "extra_args" \notin Class(PARSER_REGISTRY[n]).dct
          /\ PARSER_ARGUMENTS[n] = <<>>
    /\ \E n \in DOMAIN PARSER_REGISTRY : PARSER_ARGUMENTS[n] # <<>>

\* C18: line 47's duplicate-name check comes before line 49's id_format
\* test.  Creating a class without id_format under a registered name raises
\* ValueError and leaves the registry as it was; creating one under a name
\* that is not registered returns, leaves the registry as it was and the name
\* free; and creating a class with id_format under a free name registers it.
C18_DuplicateCheckFirst ==
    [][(pc = "idle" /\ result'.op = "register") =>
          LET cls == Class(result'.who)
          IN  /\ ("id_format" \notin cls.dct /\ cls.name \in DOMAIN PARSER_REGISTRY) =>
                    /\ result'.kind = "raise"
                    /\ result'.exc = "ValueError"
                    /\ UNCHANGED registry
              /\ ("id_format" \notin cls.dct /\ cls.name \notin DOMAIN PARSER_REGISTRY) =>
                    /\ result'.kind = "return"
                    /\ UNCHANGED registry
              /\ ("id_format" \in cls.dct /\ cls.name \notin DOMAIN PARSER_REGISTRY) =>
                    /\ result'.kind = "return"
                    /\ cls.name \in DOMAIN PARSER_REGISTRY'
                    /\ PARSER_REGISTRY'[cls.name] = Id(cls)]_vars

\* C18's case: a class without id_format was created under a name that a
\* class with id_format holds, and the creation raised ValueError.
C18_Witness ==
    /\ pc = "done"
    /\ result.op = "register"
    /\ result.exc = "ValueError"
    /\ "id_format" \notin Class(result.who).dct
    /\ Class(result.who).name \in DOMAIN PARSER_REGISTRY
    /\ PARSER_REGISTRY[Class(result.who).name] # result.who


\* Within the call, no class's id_format has been called twice and at most
\* one entry point has been called.
AtMostOnce ==
    /\ \A j, k \in DOMAIN IdCalls : IdCalls[j].cls = IdCalls[k].cls => j = k
    /\ Len(EntryCalls) <= 1
    /\ Len(IdCalls) <= Cardinality(DOMAIN PARSER_REGISTRY)

\* C19: a load_file call that passed the accessibility check ends, returning
\* or raising, given that each id_format and entry point it calls returns or
\* raises; and within a call each registered class's id_format is called at
\* most once and at most one entry point is called.
C19_Terminates ==
    /\ []AtMostOnce
    /\ (pc \in {"scan", "found"}) ~> LoadDone

\* C19's case: a call that scanned both registered classes, each once, and
\* then called one entry point, which raised.
C19_Witness ==
    /\ LoadDone
    /\ Len(order) = 2
    /\ Len(IdCalls) = 2
    /\ Len(EntryCalls) = 1
    /\ result.kind = "raise"


\* Two outcomes of load_file are the same: both returns of the same entry
\* point's result, or both raises of the same exception from the same place.
\* Which keyword an entry point's own TypeError names is the entry point's
\* behaviour, not load_file's.
SameOutcome(r1, r2) ==
    /\ r1.kind = r2.kind
    /\ r1.exc = r2.exc
    /\ r1.by = r2.by
    /\ r1.text = r2.text
    /\ r1.value = r2.value
    /\ r1.who = r2.who
    /\ r1.by \notin EntryPoints => r1.names = r2.names

\* C16: a load_file call repeated with the same filename, *args and
\* **kwargs, on an unchanged registry and with id_format answering as before,
\* makes the same id_format calls in the same order, selects the same class,
\* calls the same entry point with the same arguments and the same pruned
\* keywords, and returns or raises as the first call did.
C16_Deterministic ==
    (LoadDone /\ earlier # NoEarlier) =>
        /\ filename = earlier.filename
        /\ kwargs = earlier.kwargs
        /\ calls = earlier.calls
        /\ \A n \in DOMAIN PARSER_REGISTRY : Selected(n) <=>
              /\ IdCalls # <<>>
              /\ earlier.calls[Len(IdCalls)].cls = PARSER_REGISTRY[n]
              /\ earlier.result.by # "id_format"
              /\ earlier.result.exc # "FormatNotFound"
        /\ SameOutcome(result, earlier.result)

\* C16's case: a call that scanned two classes and returned from the second
\* one's entry point, with a keyword pruned, has been repeated and has ended.
C16_Witness ==
    /\ LoadDone
    /\ earlier # NoEarlier
    /\ earlier.result.kind = "return"
    /\ Len(earlier.calls) = 3
    /\ earlier.calls[3].kwargs # earlier.kwargs
    /\ calls = earlier.calls

====
